---- MODULE Spec2Model ----
(***************************************************************************)
(* The quote-maintenance state machine of MarketMaker                      *)
(* (src/src/market_maker.rs): the event loop's handlers, the               *)
(* reconciliation pass potentially_update with its four awaited gateway    *)
(* calls, and the exchange the agent talks to.                             *)
(*                                                                         *)
(* Numbers.  f64 prices are integers in units of 1/PriceScale (a mid price *)
(* string carries MidDigits decimals, and PriceScale leaves four more      *)
(* digits so that mid * bps / 10000 is exact).  f64 sizes are integers in  *)
(* lots.  Arithmetic is exact: IEEE rounding error is not modelled.        *)
(* EPSILON, a small tolerance, lies between 0 and one unit of either grid. *)
(***************************************************************************)
EXTENDS Integers, Sequences, FiniteSets, TLC

VARIABLES
    cfg,               \* Input: the immutable configuration of the instance
    lower_resting,     \* RestingOrder of the buy side
    upper_resting,     \* RestingOrder of the sell side
    cur_position,      \* signed position, in lots
    latest_mid_price,  \* f64, -1.0 until the first mid is parsed
    active_orders,     \* HashMap<u64, bool>: oid -> is_buy
    pc,                \* where the event loop is: idle, one of the four awaits, crashed
    pass,              \* the locals of the running (or last) potentially_update
    calls,             \* the cancel attempts and placements of that pass, in order
    resp,              \* the gateway's answer to the step just taken
    event,             \* the message process_message took last
    live,              \* exchange: oid -> the order resting on the book
    next_oid,          \* exchange: the next order id it assigns
    feed,              \* the user-event messages in the channel, oldest first
    bootstrap          \* what update_state loaded at construction

vars == <<cfg, lower_resting, upper_resting, cur_position, latest_mid_price,
          active_orders, pc, pass, calls, resp, event, live, next_oid, feed,
          bootstrap>>

agent == <<lower_resting, upper_resting, cur_position, latest_mid_price,
           active_orders>>

----------------------------------------------------------------------------
(* Bounds of the model *)

MaxOid == 2            \* the exchange assigns oids 1..MaxOid
MaxFeed == 1           \* fills waiting in the channel, over all its messages
MaxMid == 120          \* QuoteSpec: mid prices 1..MaxMid, in 10^-MidDigits
MaxHalfSpread == 2     \* QuoteSpec: half spreads 0..MaxHalfSpread bps
MaxDecimals == 2       \* QuoteSpec: decimals 0..MaxDecimals
MaxLiq == 2            \* SizeSpec: target_liquidity 0..MaxLiq, in lots
MaxCap == 3            \* SizeSpec: max_absolute_position_size 0..MaxCap, in lots
MaxPos == 4            \* SizeSpec: bootstrap positions -MaxPos..MaxPos, in lots

----------------------------------------------------------------------------
(* Numbers *)

MidDigits == 2

RECURSIVE Pow10(_)
Pow10(n) == IF n = 0 THEN 1 ELSE 10 * Pow10(n - 1)

PriceScale == Pow10(MidDigits) * 10000

Abs(x) == IF x < 0 THEN -x ELSE x

\* x > EPSILON and x < EPSILON for a value x of the grid
GtEpsilon(x) == x > 0
LtEpsilon(x) == x < 1

\* floor(n * k / d) for n >= 0, d > 0, the factor k given as a product, by
\* long division (no intermediate exceeds 10 * d)
RECURSIVE LongDiv(_, _, _, _)
LongDiv(q, r, d, ks) ==
    IF ks = <<>> THEN q
    ELSE LongDiv(q * Head(ks) + (r * Head(ks)) \div d, (r * Head(ks)) % d,
                 d, Tail(ks))

U16Max == 65535

\* |x - y| / ((x + y) / 2) * 10000, cast to u16 (saturating; NaN is 0)
bps_diff(x, y) ==
    LET n == Abs(x - y)
        d == x + y
    IN  IF n = 0 THEN 0
        ELSE IF d < 0 THEN 0
        ELSE IF d = 0 THEN U16Max
        ELSE IF n \div d >= 4 THEN U16Max
        ELSE LET v == LongDiv(n \div d, n % d, d, <<10, 10, 10, 10, 2>>)
             IN  IF v > U16Max THEN U16Max ELSE v

\* float cut to the given number of decimals: downwards, or upwards when
\* round_up is set; a value already on the grid is kept in both directions
truncate_float(float, decimals, round_up) ==
    LET tick == PriceScale \div Pow10(decimals)
        n == IF float < 0 THEN 0 ELSE float \div tick
        exact == float >= 0 /\ float % tick = 0
    IN  (n + (IF round_up /\ ~exact THEN 1 ELSE 0)) * tick

\* as clamp, the upper limit forgotten
clamp_min_only(x, lo, hi) == IF x < lo THEN lo ELSE x

\* as clamp, the lower limit forgotten
clamp_max_only(x, lo, hi) == IF x > hi THEN hi ELSE x

clamp(x, lo, hi) == IF x < lo THEN lo ELSE IF x > hi THEN hi ELSE x

\* str::parse::<f64> of a decimal string: a string is [valid, digits], digits
\* its value in 10^-MidDigits when it is a number
\* as ParseOk, every string taken for a number
ParseOkAlways(s) == TRUE

ParseOk(s) == s.valid
ParsePrice(s) == s.digits * 10000
ParseSize(s) == s.digits

NumStr(n) == [valid |-> TRUE, digits |-> n]
BadStr == [valid |-> FALSE, digits |-> 0]

----------------------------------------------------------------------------
(* Configuration *)

asset == cfg.asset
target_liquidity == cfg.target_liquidity
half_spread == cfg.half_spread
max_bps_diff == cfg.max_bps_diff
max_absolute_position_size == cfg.max_absolute_position_size
decimals == cfg.decimals

MainInput ==
    [asset |-> "SOL", target_liquidity |-> 2, half_spread |-> 20,
     max_bps_diff |-> 15, max_absolute_position_size |-> 3, decimals |-> 2]

\* mid price strings of the AllMids feed, in 10^-MidDigits
Mids == {1000, 1001, 1003}

Sentinel == -PriceScale

NoOrder == [oid |-> 0, position |-> 0, price |-> Sentinel]

----------------------------------------------------------------------------
(* Quote calculation and deviation policy: the head of potentially_update *)

TargetPrices(mid) ==
    LET hs == (mid * half_spread) \div 10000
        lower0 == truncate_float(mid - hs, decimals, TRUE)
        upper0 == truncate_float(mid + hs, decimals, FALSE)
    IN  IF LtEpsilon(Abs(lower0 - upper0))
        THEN [lower_price |-> truncate_float(lower0, decimals, FALSE),
              upper_price |-> truncate_float(upper0, decimals, TRUE)]
        ELSE [lower_price |-> lower0, upper_price |-> upper0]

TargetAmounts(pos) ==
    [lower_order_amount |->
         clamp(max_absolute_position_size - pos, 0, target_liquidity),
     upper_order_amount |->
         clamp(max_absolute_position_size + pos, 0, target_liquidity)]

\* as NeedsChange, the size test forgotten
NeedsChangePriceOnly(amount, price, resting) ==
    bps_diff(price, resting.price) > max_bps_diff

NeedsChange(amount, price, resting) ==
    \/ GtEpsilon(Abs(amount - resting.position))
    \/ bps_diff(price, resting.price) > max_bps_diff

\* the locals of potentially_update, as computed before its first await
PassLocals(mid, pos, lower, upper) ==
    LET p == TargetPrices(mid)
        a == TargetAmounts(pos)
    IN  [lower_price |-> p.lower_price,
         upper_price |-> p.upper_price,
         lower_order_amount |-> a.lower_order_amount,
         upper_order_amount |-> a.upper_order_amount,
         lower_change |->
             NeedsChange(a.lower_order_amount, p.lower_price, lower),
         upper_change |->
             NeedsChange(a.upper_order_amount, p.upper_price, upper)]

NoPass ==
    [lower_price |-> Sentinel, upper_price |-> Sentinel,
     lower_order_amount |-> 0, upper_order_amount |-> 0,
     lower_change |-> FALSE, upper_change |-> FALSE]

----------------------------------------------------------------------------
(* HashMap<u64, bool> *)

EmptyMap == [o \in {} |-> TRUE]
contains_key(m, o) == o \in DOMAIN m
insert(m, o, b) == [x \in DOMAIN m \cup {o} |-> IF x = o THEN b ELSE m[x]]
remove(m, o) == [x \in DOMAIN m \ {o} |-> m[x]]

----------------------------------------------------------------------------
(* Gateway responses.  An error message is a tuple of phrases; str::contains *)
(* looks for a phrase in it.                                                *)

contains(e, pat) == \E i \in DOMAIN e : e[i] = pat

MsgNotExist == <<"Order does not exist">>
MsgNeverPlaced == <<"Order was never placed, ", "already canceled", ", or filled.">>
MsgFilled == <<"Cannot cancel: ", "Order already filled">>
MsgTif == <<"Invalid Time in Force">>
MsgOther == <<"Too many requests">>

NoResp == [kind |-> "none", msg |-> <<>>, oid |-> 0]
Resp(kind, msg, oid) == [kind |-> kind, msg |-> msg, oid |-> oid]

\* the answers that leave the order as it is on the exchange
CancelFailures ==
    {Resp("transport_err", MsgOther, 0), Resp("top_err", MsgOther, 0),
     Resp("no_data", <<>>, 0), Resp("empty", <<>>, 0),
     Resp("status_err", MsgOther, 0), Resp("other_status", <<>>, 0)}

CancelGone ==
    {Resp(k, m, 0) : k \in {"top_err", "status_err"},
                     m \in {MsgNotExist, MsgNeverPlaced, MsgFilled}}

\* what the exchange can answer to cancel(oid): success exactly when the order
\* rests, an 'order gone' error exactly when it does not
GatewayCancel(oid) ==
    CancelFailures
        \cup (IF oid \in DOMAIN live THEN {Resp("success", <<>>, 0)} ELSE CancelGone)

PlaceFailures ==
    {Resp("transport_err", MsgOther, 0), Resp("top_err", MsgOther, 0),
     Resp("no_data", <<>>, 0), Resp("empty", <<>>, 0),
     Resp("status_err", MsgTif, 0), Resp("status_err", MsgOther, 0),
     Resp("other_status", <<>>, 0)}

GatewayPlace ==
    PlaceFailures
        \cup (IF next_oid <= MaxOid THEN {Resp("resting", <<>>, next_oid)} ELSE {})

----------------------------------------------------------------------------
(* Order Lifecycle Manager *)

\* as OrderGone, the third phrase forgotten
OrderGoneTwoPhrases(e) ==
    \/ contains(e, "Order does not exist")
    \/ contains(e, "already canceled")

OrderGone(e) ==
    \/ contains(e, "Order does not exist")
    \/ contains(e, "already canceled")
    \/ contains(e, "Order already filled")

\* as CancelMatch, every top-level error taken for 'order gone'
CancelMatchAnyTopError(r) ==
    CASE r.kind = "success" -> "removed"
      [] r.kind = "status_err" -> IF OrderGone(r.msg) THEN "removed" ELSE "failed"
      [] r.kind = "top_err" -> "removed"
      [] r.kind = "other_status" -> "panic"
      [] OTHER -> "failed"

\* the match on the cancel response: "removed" (oid dropped, true), "failed"
\* (false) or "panic" (unreachable!())
CancelMatch(r) ==
    CASE r.kind = "success" -> "removed"
      [] r.kind = "status_err" -> IF OrderGone(r.msg) THEN "removed" ELSE "failed"
      [] r.kind = "top_err" -> IF OrderGone(r.msg) THEN "removed" ELSE "failed"
      [] r.kind = "other_status" -> "panic"
      [] OTHER -> "failed"

\* as attempt_cancel, without the early return for an oid not in the index
attempt_cancel_always_asks(orders, oid, r) ==
    LET m == CancelMatch(r)
    IN  [sent |-> TRUE, ret |-> (m = "removed"), panic |-> (m = "panic"),
         active_orders |-> IF m = "removed" THEN remove(orders, oid) ELSE orders]

\* attempt_cancel(oid) on the index `orders`, the gateway answering r when asked
attempt_cancel(orders, oid, r) ==
    IF ~contains_key(orders, oid)
    THEN [sent |-> FALSE, ret |-> TRUE, panic |-> FALSE, active_orders |-> orders]
    ELSE LET m == CancelMatch(r)
         IN  [sent |-> TRUE, ret |-> (m = "removed"), panic |-> (m = "panic"),
              active_orders |-> IF m = "removed" THEN remove(orders, oid) ELSE orders]

\* as place_order, every answer that carries a status taken for a resting order
place_order_any_status(orders, amount, is_buy, r) ==
    IF r.kind \in {"resting", "status_err", "other_status"}
    THEN [amount |-> amount, oid |-> r.oid,
          active_orders |-> insert(orders, r.oid, is_buy)]
    ELSE [amount |-> 0, oid |-> 0, active_orders |-> orders]

\* place_order(amount, price, is_buy), the gateway answering r
place_order(orders, amount, is_buy, r) ==
    IF r.kind = "resting"
    THEN [amount |-> amount, oid |-> r.oid,
          active_orders |-> insert(orders, r.oid, is_buy)]
    ELSE [amount |-> 0, oid |-> 0, active_orders |-> orders]

\* as AfterCancel, the result of the cancel attempt ignored
AfterCancelGoesOn(ok, next) == next

\* where potentially_update goes after a cancel attempt
AfterCancel(ok, next) == IF ok THEN next ELSE "return"

----------------------------------------------------------------------------
(* Event Processor: the fills of one user-event message *)

ApplyFill(st, fill) ==
    IF fill.coin # asset THEN st
    ELSE LET amount == ParseSize(fill.sz)
             known == contains_key(st.active_orders, fill.oid)
             orders == remove(st.active_orders, fill.oid)
         IN  IF fill.side = "B"
             THEN [st EXCEPT
                     !.cur_position = @ + amount,
                     !.active_orders = orders,
                     !.lower_resting.position =
                         IF known /\ st.active_orders[fill.oid] THEN @ - amount ELSE @]
             ELSE [st EXCEPT
                     !.cur_position = @ - amount,
                     !.active_orders = orders,
                     !.upper_resting.position =
                         IF known /\ ~st.active_orders[fill.oid] THEN @ - amount ELSE @]

\* fill.sz.parse().unwrap() panics on this fill
Unparsed(fill) == fill.coin = asset /\ ~ParseOk(fill.sz)

\* the loop over the fills of a message, up to its end or to the fill it panics on
RECURSIVE ApplyFills(_, _)
ApplyFills(st, fills) ==
    IF fills = <<>> \/ Unparsed(Head(fills)) THEN st
    ELSE ApplyFills(ApplyFill(st, Head(fills)), Tail(fills))

FillsPanic(fills) == \E i \in DOMAIN fills : Unparsed(fills[i])

----------------------------------------------------------------------------
(* Bootstrap: new and update_state *)

OpenOrder(side, size, px, oid) ==
    [coin |-> MainInput.asset, side |-> side, sz |-> NumStr(size),
     limit_px |-> NumStr(px), oid |-> oid]

BootSizes == {MainInput.target_liquidity}
BootPositions == {0, MainInput.max_absolute_position_size}

\* open orders the bootstrap can find: at most one on each side
BootOpenOrders ==
    {<<>>}
    \cup {<<OpenOrder("B", s, 998, 1)>> : s \in BootSizes}
    \cup {<<OpenOrder("A", s, 1002, 1)>> : s \in BootSizes}
    \cup {<<OpenOrder("B", s, 998, 1), OpenOrder("A", t, 1002, 2)>> :
             s \in BootSizes, t \in BootSizes}

RestingOf(order) ==
    [oid |-> order.oid,
     position |-> IF ParseOk(order.sz) THEN ParseSize(order.sz) ELSE 0,
     price |-> IF ParseOk(order.limit_px) THEN ParsePrice(order.limit_px) ELSE 0]

RECURSIVE fetch_open_orders(_, _, _)
fetch_open_orders(st, coin, orders) ==
    IF orders = <<>> THEN st
    ELSE LET o == Head(orders)
             st1 == IF o.coin # coin THEN st
                    ELSE IF o.side = "B"
                    THEN [st EXCEPT
                            !.active_orders = insert(@, o.oid, TRUE),
                            !.lower_resting = RestingOf(o)]
                    ELSE [st EXCEPT
                            !.active_orders = insert(@, o.oid, FALSE),
                            !.upper_resting = RestingOf(o)]
         IN  fetch_open_orders(st1, coin, Tail(orders))

NoEvent == [type |-> "none", mid |-> BadStr, fills |-> <<>>]

New ==
    [lower_resting |-> NoOrder, upper_resting |-> NoOrder, cur_position |-> 0,
     active_orders |-> EmptyMap]

\* the book of the exchange at bootstrap
BookOf(orders) ==
    [o \in {orders[i].oid : i \in DOMAIN orders} |->
        LET i == CHOOSE j \in DOMAIN orders : orders[j].oid = o
        IN  [is_buy |-> orders[i].side = "B", sz |-> orders[i].sz.digits]]

InitWith(input, orders, position) ==
    LET st == fetch_open_orders(New, input.asset, orders)
    IN  /\ cfg = input
        /\ lower_resting = st.lower_resting
        /\ upper_resting = st.upper_resting
        /\ active_orders = st.active_orders
        /\ cur_position = position
        /\ latest_mid_price = Sentinel
        /\ pc = "idle"
        /\ pass = NoPass
        /\ calls = <<>>
        /\ resp = NoResp
        /\ event = NoEvent
        /\ live = BookOf(orders)
        /\ next_oid = Len(orders) + 1
        /\ feed = <<>>
        /\ bootstrap = [orders |-> orders, position |-> position]

Init ==
    \E orders \in BootOpenOrders, position \in BootPositions :
        InitWith(MainInput, orders, position)

----------------------------------------------------------------------------
(* process_message *)

Fill(coin, side, size, oid) ==
    [coin |-> coin, side |-> side, sz |-> NumStr(size), oid |-> oid]

\* the AllMids messages: a price string for the asset, an unparseable one, none
MidMessages ==
    {[present |-> TRUE, mid |-> NumStr(m)] : m \in Mids}
    \cup {[present |-> TRUE, mid |-> BadStr], [present |-> FALSE, mid |-> BadStr]}

\* potentially_update starts: its locals are computed, the first await is next
StartPass(mid, st) ==
    /\ pass' = PassLocals(mid, st.cur_position, st.lower_resting, st.upper_resting)
    /\ pc' = "cancel_lower"

RecvAllMids(msg) ==
    /\ pc = "idle"
    /\ event' = [type |-> "AllMids", mid |-> msg.mid, fills |-> <<>>]
    /\ calls' = <<>>
    /\ resp' = NoResp
    /\ IF msg.present /\ ParseOk(msg.mid)
       THEN /\ latest_mid_price' = ParsePrice(msg.mid)
            /\ StartPass(ParsePrice(msg.mid),
                         [cur_position |-> cur_position,
                          lower_resting |-> lower_resting,
                          upper_resting |-> upper_resting])
       ELSE /\ pc' = "return"
            /\ UNCHANGED <<latest_mid_price, pass>>
    /\ UNCHANGED <<cfg, lower_resting, upper_resting, cur_position, active_orders,
                   live, next_oid, feed, bootstrap>>

\* as NoMidYet, the guard dropped
NoMidYetNever(mid) == FALSE

\* as NoMidYet, the sentinel itself not counted
NoMidYetBelowSentinel(mid) == mid < Sentinel

\* "We haven't seen the first mid price event yet"
NoMidYet(mid) == mid < 0

RecvUser ==
    /\ pc = "idle"
    /\ feed # <<>>
    /\ feed' = Tail(feed)
    /\ event' = [type |-> "User", mid |-> BadStr, fills |-> Head(feed)]
    /\ calls' = <<>>
    /\ resp' = NoResp
    /\ IF NoMidYet(latest_mid_price)
       THEN /\ pc' = "return"
            /\ UNCHANGED <<lower_resting, upper_resting, cur_position,
                           active_orders, pass>>
       ELSE LET st == ApplyFills([cur_position |-> cur_position,
                                  lower_resting |-> lower_resting,
                                  upper_resting |-> upper_resting,
                                  active_orders |-> active_orders], Head(feed))
            IN  /\ cur_position' = st.cur_position
                /\ lower_resting' = st.lower_resting
                /\ upper_resting' = st.upper_resting
                /\ active_orders' = st.active_orders
                /\ IF FillsPanic(Head(feed))
                   THEN pc' = "crashed" /\ UNCHANGED pass
                   ELSE StartPass(latest_mid_price, st)
    /\ UNCHANGED <<cfg, latest_mid_price, live, next_oid, bootstrap>>

----------------------------------------------------------------------------
(* potentially_update: the four awaits *)

Resting(is_buy) == IF is_buy THEN lower_resting ELSE upper_resting
Change(is_buy) == IF is_buy THEN pass.lower_change ELSE pass.upper_change
Amount(is_buy) ==
    IF is_buy THEN pass.lower_order_amount ELSE pass.upper_order_amount
Price(is_buy) == IF is_buy THEN pass.lower_price ELSE pass.upper_price

\* as CancelWanted, only for an oid of the index
CancelWantedIndexed(is_buy) ==
    /\ Resting(is_buy).oid # 0
    /\ GtEpsilon(Resting(is_buy).position)
    /\ Change(is_buy)
    /\ contains_key(active_orders, Resting(is_buy).oid)

CancelWanted(is_buy) ==
    /\ Resting(is_buy).oid # 0
    /\ GtEpsilon(Resting(is_buy).position)
    /\ Change(is_buy)

\* as PlaceWanted, the change flag forgotten
PlaceWantedUnchanged(is_buy) == GtEpsilon(Amount(is_buy))

PlaceWanted(is_buy) == GtEpsilon(Amount(is_buy)) /\ Change(is_buy)

CancelCall(is_buy, oid, out) ==
    [op |-> "cancel", is_buy |-> is_buy, oid |-> oid, sent |-> out.sent,
     ok |-> out.ret]

PlaceCall(is_buy, out) ==
    [op |-> "place", is_buy |-> is_buy, oid |-> out.oid, sent |-> TRUE,
     ok |-> out.oid # 0]

\* the cancel block of one side, at pc = here, going on to next
Cancel(is_buy, here, next) ==
    /\ pc = here
    /\ \/ /\ ~CancelWanted(is_buy)
          /\ pc' = next
          /\ resp' = NoResp
          /\ UNCHANGED <<active_orders, calls, live>>
       \/ /\ CancelWanted(is_buy)
          /\ LET oid == Resting(is_buy).oid
             IN  \E r \in IF contains_key(active_orders, oid)
                          THEN GatewayCancel(oid) ELSE {NoResp} :
                    LET out == attempt_cancel(active_orders, oid, r)
                    IN  /\ active_orders' = out.active_orders
                        /\ calls' = Append(calls, CancelCall(is_buy, oid, out))
                        /\ resp' = r
                        /\ live' = IF r.kind = "success" THEN remove(live, oid)
                                   ELSE live
                        /\ pc' = IF out.panic THEN "crashed"
                                 ELSE AfterCancel(out.ret, next)
    /\ UNCHANGED <<cfg, lower_resting, upper_resting, cur_position,
                   latest_mid_price, pass, event, next_oid, feed, bootstrap>>

CancelLower == Cancel(TRUE, "cancel_lower", "cancel_upper")
CancelUpper == Cancel(FALSE, "cancel_upper", "place_lower")

\* the placement block of one side
Place(is_buy, here, next) ==
    /\ pc = here
    /\ pc' = next
    /\ \/ /\ ~PlaceWanted(is_buy)
          /\ resp' = NoResp
          /\ UNCHANGED <<lower_resting, upper_resting, active_orders, calls, live,
                         next_oid>>
       \/ /\ PlaceWanted(is_buy)
          /\ \E r \in GatewayPlace :
                LET out == place_order(active_orders, Amount(is_buy), is_buy, r)
                    rest == [oid |-> out.oid, position |-> out.amount,
                             price |-> Price(is_buy)]
                IN  /\ active_orders' = out.active_orders
                    /\ IF is_buy
                       THEN lower_resting' = rest /\ UNCHANGED upper_resting
                       ELSE upper_resting' = rest /\ UNCHANGED lower_resting
                    /\ calls' = Append(calls, PlaceCall(is_buy, out))
                    /\ resp' = r
                    /\ IF r.kind = "resting"
                       THEN /\ live' = insert(live, r.oid,
                                   [is_buy |-> is_buy, sz |-> Amount(is_buy)])
                            /\ next_oid' = next_oid + 1
                       ELSE UNCHANGED <<live, next_oid>>
    /\ UNCHANGED <<cfg, cur_position, latest_mid_price, pass, event, feed,
                   bootstrap>>

PlaceLower == Place(TRUE, "place_lower", "place_upper")
PlaceUpper == Place(FALSE, "place_upper", "return")

\* process_message returns and the loop waits for the next message; the locals
\* of the handler are gone
Return ==
    /\ pc = "return"
    /\ pc' = "idle"
    /\ pass' = NoPass
    /\ calls' = <<>>
    /\ resp' = NoResp
    /\ event' = NoEvent
    /\ UNCHANGED <<cfg, lower_resting, upper_resting, cur_position,
                   latest_mid_price, active_orders, live, next_oid, feed,
                   bootstrap>>

----------------------------------------------------------------------------
(* The exchange fills a resting order, wholly or in part, and reports it *)

RECURSIVE Pending(_)
Pending(msgs) == IF msgs = <<>> THEN 0 ELSE Len(Head(msgs)) + Pending(Tail(msgs))

ExchangeFill(oid, amount) ==
    /\ oid \in DOMAIN live
    /\ amount \in 1 .. live[oid].sz
    /\ live' = IF amount = live[oid].sz THEN remove(live, oid)
               ELSE [live EXCEPT ![oid].sz = @ - amount]
    /\ LET fill == Fill(asset, IF live[oid].is_buy THEN "B" ELSE "A", amount, oid)
       IN  /\ Pending(feed) < MaxFeed
           /\ \/ feed' = Append(feed, <<fill>>)
              \/ /\ feed # <<>>
                 /\ feed' = [feed EXCEPT ![Len(feed)] = Append(@, fill)]
    /\ UNCHANGED <<cfg, lower_resting, upper_resting, cur_position,
                   latest_mid_price, active_orders, pc, pass, calls, resp, event,
                   next_oid, bootstrap>>

Next ==
    \/ \E msg \in MidMessages : RecvAllMids(msg)
    \/ RecvUser
    \/ CancelLower
    \/ CancelUpper
    \/ PlaceLower
    \/ PlaceUpper
    \/ Return
    \/ \E oid \in 1 .. MaxOid, amount \in 1 .. MainInput.target_liquidity :
          ExchangeFill(oid, amount)

Spec == Init /\ [][Next]_vars

----------------------------------------------------------------------------
(* The agent constructed with an open order on each side, every awaited     *)
(* gateway call of a pass returning                                         *)

PassSteps == CancelLower \/ CancelUpper \/ PlaceLower \/ PlaceUpper

FairInit ==
    \E orders \in {o \in BootOpenOrders : Len(o) = 2},
       position \in BootPositions :
        InitWith(MainInput, orders, position)

FairSpec == FairInit /\ [][Next]_vars /\ WF_vars(PassSteps)

----------------------------------------------------------------------------
(* The same with a feed that can also deliver a fill whose size is not a    *)
(* number                                                                   *)

MalformedFill(side, oid) ==
    /\ Pending(feed) < MaxFeed
    /\ feed' = Append(feed, <<[coin |-> asset, side |-> side, sz |-> BadStr,
                               oid |-> oid]>>)
    /\ UNCHANGED <<cfg, lower_resting, upper_resting, cur_position,
                   latest_mid_price, active_orders, pc, pass, calls, resp, event,
                   live, next_oid, bootstrap>>

FeedNext ==
    \/ Next
    \/ \E side \in {"B", "A"}, oid \in 1 .. MaxOid : MalformedFill(side, oid)

FeedSpec == Init /\ [][FeedNext]_vars

----------------------------------------------------------------------------
(* The quote calculator on its own: every configuration of a bounded set,   *)
(* every mid price of a bounded range                                       *)

QuoteInputs ==
    {[MainInput EXCEPT !.half_spread = h, !.decimals = d] :
        h \in 0 .. MaxHalfSpread, d \in 0 .. MaxDecimals}

QuoteInit == \E input \in QuoteInputs : InitWith(input, <<>>, 0)

Quote(m) ==
    /\ latest_mid_price' = ParsePrice(NumStr(m))
    /\ pass' = PassLocals(ParsePrice(NumStr(m)), cur_position, lower_resting,
                          upper_resting)
    /\ UNCHANGED <<cfg, lower_resting, upper_resting, cur_position, active_orders,
                   pc, calls, resp, event, live, next_oid, feed, bootstrap>>

QuoteNext == \E m \in 1 .. MaxMid : Quote(m)

QuoteSpec == QuoteInit /\ [][QuoteNext]_vars

----------------------------------------------------------------------------
(* The agent alone, nothing being filled: every configuration of a bounded  *)
(* set of sizes and caps, every bootstrap position of a bounded range       *)

SizeInputs ==
    {[MainInput EXCEPT !.target_liquidity = t, !.max_absolute_position_size = c] :
        t \in 0 .. MaxLiq, c \in 0 .. MaxCap}

SizeInit ==
    \E input \in SizeInputs, position \in -MaxPos .. MaxPos :
        InitWith(input, <<>>, position)

SizeNext ==
    \/ \E msg \in MidMessages : RecvAllMids(msg)
    \/ CancelLower
    \/ CancelUpper
    \/ PlaceLower
    \/ PlaceUpper
    \/ Return

SizeSpec == SizeInit /\ [][SizeNext]_vars

----------------------------------------------------------------------------
(* The first pass: as SizeSpec, the feed delivering no mid price after the  *)
(* first one that parses                                                    *)

FirstMid(msg) == latest_mid_price = Sentinel /\ RecvAllMids(msg)

FirstNext ==
    \/ \E msg \in MidMessages : FirstMid(msg)
    \/ CancelLower
    \/ CancelUpper
    \/ PlaceLower
    \/ PlaceUpper
    \/ Return

FirstSpec == SizeInit /\ [][FirstNext]_vars

----------------------------------------------------------------------------
(* Claims *)

Last(s) == s[Len(s)]

CancelPc(is_buy) == IF is_buy THEN "cancel_lower" ELSE "cancel_upper"
AfterCancelPc(is_buy) == IF is_buy THEN "cancel_upper" ELSE "place_lower"

\* the step is the cancel block of side is_buy calling attempt_cancel
CancelAttempt(is_buy) ==
    /\ pc = CancelPc(is_buy)
    /\ pc' # pc
    /\ CancelWanted(is_buy)

GonePhrases == {"Order does not exist", "already canceled", "Order already filled"}

\* an error answer, top-level or per-order, whose message has one of the phrases
SaysGone(r) ==
    /\ r.kind \in {"top_err", "status_err"}
    /\ \E p \in GonePhrases : contains(r.msg, p)

\* C1: a cancel attempt that returned false is the last thing its pass did: no
\* cancel attempt and no placement follows it, and the pass is over.
C1_FailedCancelEndsPass ==
    \A i \in DOMAIN calls :
        (calls[i].op = "cancel" /\ ~calls[i].ok) =>
            (i = Len(calls) /\ pc \in {"return", "crashed"})

\* the lower cancel was refused by the gateway in a pass that wanted to cancel
\* the upper order and to place on both sides
C1_Witness ==
    /\ pc = "return"
    /\ Len(calls) = 1
    /\ calls[1].op = "cancel" /\ calls[1].is_buy /\ calls[1].sent /\ ~calls[1].ok
    /\ CancelWanted(FALSE)
    /\ PlaceWanted(TRUE)
    /\ PlaceWanted(FALSE)

\* C2: attempt_cancel of an oid that is not in active_orders returns true, sends
\* nothing to the gateway (the book of the exchange is as it was) and changes
\* neither the index nor the resting orders nor the position.
C2_UnknownOidNoGatewayCall ==
    [][\A b \in BOOLEAN :
         (CancelAttempt(b) /\ ~contains_key(active_orders, Resting(b).oid)) =>
            /\ calls' = Append(calls,
                   [op |-> "cancel", is_buy |-> b, oid |-> Resting(b).oid,
                    sent |-> FALSE, ok |-> TRUE])
            /\ resp' = NoResp
            /\ pc' = AfterCancelPc(b)
            /\ UNCHANGED <<live, active_orders, lower_resting, upper_resting,
                           cur_position>>]_vars

\* attempt_cancel has just answered true for an oid it did not ask the gateway about
C2_Witness ==
    /\ calls # <<>>
    /\ Last(calls).op = "cancel"
    /\ ~Last(calls).sent
    /\ Last(calls).ok
    /\ Last(calls).oid # 0
    /\ ~contains_key(active_orders, Last(calls).oid)

\* C3: for an oid of the index, an error answer with one of the three phrases,
\* like a success status, removes the oid from the index and makes
\* attempt_cancel return true (the pass goes on).
C3_GoneIsSuccess ==
    [][\A b \in BOOLEAN :
         (/\ CancelAttempt(b)
          /\ contains_key(active_orders, Resting(b).oid)
          /\ (resp'.kind = "success" \/ SaysGone(resp'))) =>
            /\ active_orders' = remove(active_orders, Resting(b).oid)
            /\ Last(calls').op = "cancel" /\ Last(calls').sent /\ Last(calls').ok
            /\ pc' = AfterCancelPc(b)]_vars

\* a top-level "Order already filled" error has just been taken as a success
C3_Witness ==
    /\ resp = Resp("top_err", MsgFilled, 0)
    /\ calls # <<>>
    /\ Last(calls).op = "cancel" /\ Last(calls).sent /\ Last(calls).ok
    /\ ~contains_key(active_orders, Last(calls).oid)

\* C4: for an oid of the index, a transport failure, an empty answer, or an error
\* without any of the three phrases makes attempt_cancel return false (the pass
\* ends) with the index, the resting orders and the position as they were.
C4_OtherErrorChangesNothing ==
    [][\A b \in BOOLEAN :
         (/\ CancelAttempt(b)
          /\ contains_key(active_orders, Resting(b).oid)
          /\ resp'.kind \in {"transport_err", "top_err", "status_err", "no_data",
                             "empty"}
          /\ ~SaysGone(resp')) =>
            /\ Last(calls').op = "cancel" /\ Last(calls').sent /\ ~Last(calls').ok
            /\ pc' = "return"
            /\ UNCHANGED <<active_orders, lower_resting, upper_resting,
                           cur_position>>]_vars

\* a per-order error of another kind has just made attempt_cancel return false
C4_Witness ==
    /\ resp = Resp("status_err", MsgOther, 0)
    /\ pc = "return"
    /\ calls # <<>>
    /\ Last(calls).op = "cancel" /\ Last(calls).sent /\ ~Last(calls).ok
    /\ contains_key(active_orders, Last(calls).oid)

\* C5: a user-event message taken while latest_mid_price is the sentinel changes
\* nothing of the agent and starts no pass: no locals, no call, the book as it was.
C5_FillBeforeMidIgnored ==
    [][(pc = "idle" /\ event'.type = "User" /\ latest_mid_price = Sentinel) =>
          /\ UNCHANGED <<cur_position, lower_resting, upper_resting, active_orders,
                         latest_mid_price, live, next_oid>>
          /\ pc' = "return"
          /\ pass' = NoPass
          /\ calls' = <<>>]_vars

\* a fill of a resting order of the asset has just been dropped
C5_Witness ==
    /\ pc = "return"
    /\ event.type = "User"
    /\ latest_mid_price = Sentinel
    /\ \E i \in DOMAIN event.fills :
          /\ event.fills[i].coin = asset
          /\ event.fills[i].oid \in {lower_resting.oid, upper_resting.oid}

\* the step takes a user-event message of one fill, a mid price being known
OneFillTaken ==
    /\ pc = "idle"
    /\ event'.type = "User"
    /\ latest_mid_price # Sentinel
    /\ Len(event'.fills) = 1

\* C6: with a mid price seen, a buy fill of the asset whose oid is
\* lower_resting.oid adds its size to cur_position, takes it from
\* lower_resting.position and leaves the oid out of the index; a sell fill
\* does the same with the upper side; and so for every fill of an order.
C6_FillAdjustsRestingSize ==
    [][OneFillTaken =>
         LET f == event'.fills[1]
             sz == ParseSize(f.sz)
         IN  /\ (f.coin = asset /\ f.side = "B" /\ f.oid = lower_resting.oid) =>
                   /\ cur_position' = cur_position + sz
                   /\ lower_resting'.position = lower_resting.position - sz
                   /\ ~contains_key(active_orders', f.oid)
             /\ (f.coin = asset /\ f.side # "B" /\ f.oid = upper_resting.oid) =>
                   /\ cur_position' = cur_position - sz
                   /\ upper_resting'.position = upper_resting.position - sz
                   /\ ~contains_key(active_orders', f.oid)]_vars

\* potentially_update has run to its end: no cancel attempt cut it short
PassCompleted ==
    /\ pc = "return"
    /\ pass # NoPass
    /\ \A i \in DOMAIN calls : calls[i].op = "cancel" => calls[i].ok

\* C7: when a pass has completed, a nonzero lower_resting.oid is in the index as
\* a buy and a nonzero upper_resting.oid is in the index as a sell.
C7_RestingOidsIndexed ==
    PassCompleted =>
        /\ lower_resting.oid # 0 =>
              /\ contains_key(active_orders, lower_resting.oid)
              /\ active_orders[lower_resting.oid]
        /\ upper_resting.oid # 0 =>
              /\ contains_key(active_orders, upper_resting.oid)
              /\ ~active_orders[upper_resting.oid]

\* C8: the exchange never holds two orders of the agent on the same side.
C8_OneLiveOrderPerSide ==
    \A o1 \in DOMAIN live, o2 \in DOMAIN live :
        live[o1].is_buy = live[o2].is_buy => o1 = o2

\* C9: started with no open order and a position within the bound, every fill
\* being a fill of an order the agent placed, the position stays within
\* [-max_absolute_position_size, max_absolute_position_size].
C9_PositionWithinBound ==
    (bootstrap.orders = <<>> /\ Abs(bootstrap.position) <= max_absolute_position_size)
        => Abs(cur_position) <= max_absolute_position_size

\* C10: the target prices of a pass satisfy lower_price < upper_price, for every
\* mid price, half spread and number of decimals.
C10_LowerBelowUpper ==
    pass # NoPass => pass.lower_price < pass.upper_price

\* C11: whatever the position and the configuration, the target sizes of a pass
\* are within [0, target_liquidity], and the size of every placement request
\* is above EPSILON and at most target_liquidity.
C11_SizesWithinTarget ==
    /\ pass # NoPass =>
          /\ pass.lower_order_amount \in 0 .. target_liquidity
          /\ pass.upper_order_amount \in 0 .. target_liquidity
    /\ \A i \in DOMAIN calls :
          calls[i].op = "place" =>
              /\ GtEpsilon(Amount(calls[i].is_buy))
              /\ Amount(calls[i].is_buy) <= target_liquidity

\* with the position above the cap the buy size is 0, and the pass has sent a
\* sell order of the full size
C11_Witness ==
    /\ cur_position > max_absolute_position_size
    /\ pass # NoPass
    /\ pass.lower_order_amount = 0
    /\ pass.upper_order_amount = target_liquidity
    /\ calls # <<>>
    /\ Last(calls).op = "place" /\ ~Last(calls).is_buy /\ Last(calls).sent

\* C12: a user-event message with a fill of the asset whose size is not a number
\* does not stop the agent and leaves the position, the resting orders and the
\* index as they were.
C12_MalformedFillDiscarded ==
    [][(/\ pc = "idle"
        /\ event'.type = "User"
        /\ \E i \in DOMAIN event'.fills :
              event'.fills[i].coin = asset /\ ~event'.fills[i].sz.valid) =>
          /\ pc' # "crashed"
          /\ UNCHANGED <<cur_position, lower_resting, upper_resting,
                         active_orders>>]_vars

\* C13: an AllMids message whose price for the asset does not parse, or that has
\* no price for the asset, changes nothing of the agent and starts no pass: no
\* locals, no call, the book as it was.
C13_BadMidChangesNothing ==
    [][(pc = "idle" /\ event'.type = "AllMids" /\ ~event'.mid.valid) =>
          /\ UNCHANGED <<latest_mid_price, cur_position, lower_resting,
                         upper_resting, active_orders, live, next_oid>>
          /\ pc' = "return"
          /\ pass' = NoPass
          /\ calls' = <<>>]_vars

\* such a message has just been dropped by an agent that has a mid price and a
\* resting buy order
C13_Witness ==
    /\ pc = "return"
    /\ event.type = "AllMids"
    /\ ~event.mid.valid
    /\ latest_mid_price # Sentinel
    /\ lower_resting.oid # 0
    /\ calls = <<>>

\* the position at construction leaves room for a full order on either side
RoomBothSides ==
    Abs(bootstrap.position) <= max_absolute_position_size - target_liquidity

\* the pass has ended after a buy placement at the lower target price and a sell
\* placement at the upper target price, each of size target_liquidity, and
\* nothing else
TwoPlacements ==
    /\ Len(calls) = 2
    /\ calls[1].op = "place" /\ calls[1].is_buy /\ calls[1].sent
    /\ calls[2].op = "place" /\ ~calls[2].is_buy /\ calls[2].sent
    /\ Amount(TRUE) = target_liquidity
    /\ Amount(FALSE) = target_liquidity
    /\ Price(TRUE) = TargetPrices(latest_mid_price).lower_price
    /\ Price(FALSE) = TargetPrices(latest_mid_price).upper_price
    /\ lower_resting.price = Price(TRUE)
    /\ upper_resting.price = Price(FALSE)

\* C14 as stated: constructed with no open order and room on both sides, the
\* pass of the first mid price that parses sends no cancel and exactly two
\* placements, a buy at the lower and a sell at the upper target price, each of
\* size target_liquidity.
C14_FirstMidPlacesBoth ==
    (pc = "return" /\ pass # NoPass /\ RoomBothSides) => TwoPlacements

\* C14 amended: the same when target_liquidity exceeds EPSILON.
C14_FirstMidPlacesBothIfSized ==
    (/\ pc = "return"
     /\ pass # NoPass
     /\ RoomBothSides
     /\ GtEpsilon(target_liquidity)) => TwoPlacements

\* the first pass of an agent constructed with a position other than 0 has sent
\* its two orders
C14_Witness ==
    /\ pc = "return"
    /\ pass # NoPass
    /\ RoomBothSides
    /\ GtEpsilon(target_liquidity)
    /\ bootstrap.position # 0
    /\ TwoPlacements

PlacePc(is_buy) == IF is_buy THEN "place_lower" ELSE "place_upper"

\* C15: place_order puts the oid in the index, under the side asked for, and
\* returns (amount, oid) exactly when the gateway answers with a resting status;
\* after any other answer it returns (0, 0) and the index is as it was.
C15_IndexedOnlyWhenResting ==
    [][\A b \in BOOLEAN :
         (pc = PlacePc(b) /\ pc' # pc /\ PlaceWanted(b)) =>
            LET after == IF b THEN lower_resting' ELSE upper_resting'
            IN  IF resp'.kind = "resting"
                THEN /\ resp'.oid # 0
                     /\ active_orders' = insert(active_orders, resp'.oid, b)
                     /\ after = [oid |-> resp'.oid, position |-> Amount(b),
                                 price |-> Price(b)]
                ELSE /\ active_orders' = active_orders
                     /\ after = [oid |-> 0, position |-> 0, price |-> Price(b)]]_vars

\* a post-only rejection has just left a non-empty index as it was
C15_Witness ==
    /\ resp = Resp("status_err", MsgTif, 0)
    /\ calls # <<>>
    /\ Last(calls).op = "place" /\ ~Last(calls).ok
    /\ active_orders # EmptyMap
    /\ Resting(Last(calls).is_buy).oid = 0

\* the last placement on the side failed: no oid, no size, the price it aimed at
PlacementFailed(is_buy) ==
    /\ Resting(is_buy).oid = 0
    /\ Resting(is_buy).position = 0
    /\ Resting(is_buy).price # Sentinel

\* the step appends a placement request for the side to the calls of the pass
PlacementSent(is_buy) ==
    /\ Len(calls') = Len(calls) + 1
    /\ Last(calls').op = "place"
    /\ Last(calls').is_buy = is_buy
    /\ Last(calls').sent

\* C16: a failed placement leaves oid 0 and size 0 on its side; a pass goes on
\* to its placements unless a cancel attempt fails; and a pass that comes to the
\* placement of a side whose last placement failed, with a target size above
\* EPSILON, sends a placement for that side, whatever the target price.
C16_FailedPlacementRetried ==
    [][\A b \in BOOLEAN :
         /\ (pc = PlacePc(b) /\ pc' # pc /\ PlaceWanted(b)
                 /\ resp'.kind # "resting") =>
               LET after == IF b THEN lower_resting' ELSE upper_resting'
               IN  after.oid = 0 /\ after.position = 0
         /\ (pc = CancelPc(b) /\ pc' \notin {pc, AfterCancelPc(b)}) =>
               (Last(calls').op = "cancel" /\ ~Last(calls').ok)
         /\ (pc = "place_lower" /\ pc' # pc) => pc' = "place_upper"
         /\ (pc = PlacePc(b) /\ pc' # pc /\ PlacementFailed(b)
                 /\ GtEpsilon(Amount(b))) => PlacementSent(b)]_vars

\* a pass has come to the buy placement after a failed one, the target price
\* being the price of the failed placement and the target size above EPSILON
C16_Witness ==
    /\ pc = "place_lower"
    /\ PlacementFailed(TRUE)
    /\ lower_resting.price = Price(TRUE)
    /\ GtEpsilon(Amount(TRUE))
    /\ PlaceWanted(TRUE)
    /\ \A i \in DOMAIN calls : calls[i].ok

\* the pass has had a cancel attempt for the side return true
CancelSucceeded(is_buy) ==
    \E i \in DOMAIN calls :
        calls[i].op = "cancel" /\ calls[i].is_buy = is_buy /\ calls[i].ok

\* the pass has had a placement for the side answered with a resting order
PlaceSucceeded(is_buy) ==
    \E i \in DOMAIN calls :
        calls[i].op = "place" /\ calls[i].is_buy = is_buy /\ calls[i].ok

\* C17: at the end of a pass in which a cancel attempt for a side succeeded and
\* no order was placed on that side, the side's RestingOrder has oid 0.
C17_CancelResetsOid ==
    \A b \in BOOLEAN :
        (pc = "return" /\ CancelSucceeded(b) /\ ~PlaceSucceeded(b)) =>
            Resting(b).oid = 0

\* C18: an answer without a body, with an empty status list or with a status
\* other than the expected ones does not stop the agent: attempt_cancel returns
\* false and the pass ends, place_order returns (0, 0) and the pass goes on.
C18_OddResponseIsFailure ==
    [][\A b \in BOOLEAN :
         /\ (/\ CancelAttempt(b)
             /\ contains_key(active_orders, Resting(b).oid)
             /\ resp'.kind \in {"no_data", "empty", "other_status"}) =>
               /\ pc' = "return"
               /\ Last(calls').op = "cancel" /\ ~Last(calls').ok
         /\ (/\ pc = PlacePc(b) /\ pc' # pc /\ PlaceWanted(b)
             /\ resp'.kind \in {"no_data", "empty", "other_status"}) =>
               LET after == IF b THEN lower_resting' ELSE upper_resting'
               IN  /\ pc' # "crashed"
                   /\ after.oid = 0 /\ after.position = 0]_vars

\* C19: with no pass running and no fill waiting, a RestingOrder with an oid and
\* a size above EPSILON names an order that rests on the exchange.
C19_BelievedOrderIsLive ==
    (pc = "idle" /\ feed = <<>>) =>
        \A b \in BOOLEAN :
            (Resting(b).oid # 0 /\ GtEpsilon(Resting(b).position)) =>
                Resting(b).oid \in DOMAIN live

\* C20: at the end of a pass all of whose cancel attempts and placements
\* succeeded, the believed size of each side is within EPSILON of the target
\* size of the pass.
C20_BelievedSizeIsTarget ==
    (pc = "return" /\ pass # NoPass /\ \A i \in DOMAIN calls : calls[i].ok) =>
        \A b \in BOOLEAN :
            ~GtEpsilon(Abs(Resting(b).position - Amount(b)))

\* potentially_update is at one of its four awaits
InPass == pc \in {"cancel_lower", "cancel_upper", "place_lower", "place_upper"}

\* the target of the side is within tolerance of its RestingOrder: the size
\* within EPSILON, the price within max_bps_diff basis points
WithinTolerance(is_buy) ==
    /\ ~GtEpsilon(Abs(Amount(is_buy) - Resting(is_buy).position))
    /\ bps_diff(Price(is_buy), Resting(is_buy).price) <= max_bps_diff

\* the pass has done nothing so far and has both sides within tolerance
QuietPass == calls = <<>> /\ WithinTolerance(TRUE) /\ WithinTolerance(FALSE)

\* C21: a pass with both sides within tolerance goes through its four blocks
\* without a cancel attempt or a placement: every step of it leaves the calls
\* empty and the resting orders, the index, the position and the book of the
\* exchange as they were.
C21_QuietPassChangesNothing ==
    [][(InPass /\ pc' # pc /\ QuietPass) =>
          /\ calls' = <<>>
          /\ resp' = NoResp
          /\ pc' \in {"cancel_upper", "place_lower", "place_upper", "return"}
          /\ UNCHANGED <<lower_resting, upper_resting, active_orders,
                         cur_position, live, next_oid>>]_vars

\* such a pass has ended, both sides holding an order above EPSILON, the buy
\* order at another price than the target
C21_Witness ==
    /\ pc = "return"
    /\ pass # NoPass
    /\ QuietPass
    /\ lower_resting.oid # 0 /\ GtEpsilon(lower_resting.position)
    /\ upper_resting.oid # 0 /\ GtEpsilon(upper_resting.position)
    /\ lower_resting.price # Price(TRUE)

\* the place of a call in (cancel lower, cancel upper, place lower, place upper)
CallRank(c) ==
    (IF c.op = "cancel" THEN 1 ELSE 3) + (IF c.is_buy THEN 0 ELSE 1)

\* the calls of the pass so far are a subsequence of the four, in that order
CallsInOrder ==
    \A i \in DOMAIN calls, j \in DOMAIN calls :
        i < j => CallRank(calls[i]) < CallRank(calls[j])

\* the side's RestingOrder names an order and has a size above EPSILON
BelievedLive(is_buy) ==
    Resting(is_buy).oid # 0 /\ GtEpsilon(Resting(is_buy).position)

\* the pass is about to send a placement for the side
PlaceDue(is_buy) == pc = PlacePc(is_buy) /\ PlaceWanted(is_buy)

\* C22: the cancel attempts and placements of a pass are a subsequence of
\* (cancel lower, cancel upper, place lower, place upper), so at most four; a
\* pass about to place on a side whose RestingOrder names an order with a size
\* above EPSILON has had its cancel attempt for that side return true; and,
\* every awaited call returning, a pass that has started comes to its end.
C22_CallsInOrder ==
    /\ [](/\ CallsInOrder
          /\ Len(calls) <= 4
          /\ \A b \in BOOLEAN :
                (PlaceDue(b) /\ BelievedLive(b)) => CancelSucceeded(b))
    /\ (InPass ~> ~InPass)

\* a pass has made all four calls, each to the gateway, and has ended
C22_Witness ==
    /\ pc = "return"
    /\ Len(calls) = 4
    /\ \A i \in DOMAIN calls : calls[i].sent
    /\ CallsInOrder

\* the agent and the order ids of the exchange are as construction left them
AsConstructed ==
    LET st == fetch_open_orders(New, asset, bootstrap.orders)
    IN  /\ lower_resting = st.lower_resting
        /\ upper_resting = st.upper_resting
        /\ active_orders = st.active_orders
        /\ cur_position = bootstrap.position
        /\ next_oid = Len(bootstrap.orders) + 1
        /\ DOMAIN live \subseteq DOMAIN BookOf(bootstrap.orders)

\* C23: as long as no mid price has been parsed, whatever fill and mid-price
\* messages have arrived, no pass runs or has run and nothing has been sent to
\* the gateway; a pass has a mid price other than the sentinel.
C23_NoPassBeforeFirstMid ==
    /\ latest_mid_price = Sentinel =>
          /\ pc \in {"idle", "return"}
          /\ pass = NoPass
          /\ calls = <<>>
          /\ AsConstructed
    /\ (InPass \/ pass # NoPass \/ calls # <<>>) =>
          (latest_mid_price # Sentinel /\ ~NoMidYet(latest_mid_price))

\* no mid price parsed yet: a fill of a bootstrap order has been reported and
\* its message taken, and a mid-price message that does not parse has followed
C23_Witness ==
    /\ latest_mid_price = Sentinel
    /\ pc = "return"
    /\ event.type = "AllMids"
    /\ ~ParseOk(event.mid)
    /\ feed = <<>>
    /\ DOMAIN live # DOMAIN BookOf(bootstrap.orders)

====
